---- MODULE Spec2Model ----
(***************************************************************************)
(* Model of anthemav_x00/protocol.py: the AVR asyncio.Protocol handler.    *)
(*                                                                         *)
(* Text (str and the ASCII bytes it encodes to) is a sequence of           *)
(* one-character strings.  One action is one handler run on the event      *)
(* loop: asyncio runs every handler to completion before the next one.     *)
(* The handler is constructed with an event loop; the two callbacks are    *)
(* optional constructor arguments.                                         *)
(***************************************************************************)
EXTENDS Integers, Sequences, FiniteSets, TLC

VARIABLES
    transport,        \* self.transport: "None" or "attached"
    reading,          \* reading state of the transport: "resumed" or "paused"
    buffer,           \* self.buffer
    attr,             \* self._P1P, self._P1VM, self._P1S, self._P1M (by key)
    flag,             \* self._poweron_refresh_successful
    update_callback,  \* whether the constructor was given update_callback
    lost_callback,    \* whether the constructor was given connection_lost_callback
    ready,            \* the loop's call_soon queue
    timers,           \* the loop's call_later timers for poweron_refresh, by remaining delay
    count,            \* update_callback registrations since the queue was last empty
    stream,           \* text the device sends
    pos,              \* how much of stream has been delivered
    nstreams,         \* streams started so far
    cuts,             \* chunks so far that ended inside a stream
    startBuffer,      \* self.buffer when the current stream began
    matched,          \* how many messages of the stream were handed to _parse_message
    same,             \* whether they were, in order, the first of the one-chunk messages
    op,               \* the handler that ran last
    arg,              \* its argument
    written,          \* what it wrote to transport.write, in order
    raised,           \* whether it raised to its caller
    parsed,           \* the _parse_message calls of the last data_received
    skipped,          \* messages of the last data_received never interpreted to the end
    lastN             \* ordinal of the notification delivered last, 0 once the queue is empty

vars == <<transport, reading, buffer, attr, flag, update_callback, lost_callback,
          ready, timers, count, stream, pos, nstreams, cuts, startBuffer, matched, same,
          op, arg, written, raised, parsed, skipped, lastN>>

(* ---------------------------------------------------------------- bounds *)

\* streams the device sends
MaxStreams == 1

\* chunk boundaries that fall inside a stream
MaxCuts == 1

(* ------------------------------------------------------------------ text *)

SEMI == ";"

\* str.startswith
StartsWith(s, p) == Len(s) >= Len(p) /\ SubSeq(s, 1, Len(p)) = p

\* index of the first delimiter of s, 0 when there is none (str.find + 1)
Find(s) ==
    LET at == {i \in 1..Len(s) : s[i] = SEMI}
    IN IF at = {} THEN 0 ELSE CHOOSE i \in at : \A j \in at : i <= j

\* str.split(';'): every segment, the empty ones and the trailing one included
RECURSIVE Split(_)
Split(s) ==
    LET f == Find(s)
    IN IF f = 0 THEN <<s>>
       ELSE <<SubSeq(s, 1, f - 1)>> \o Split(SubSeq(s, f + 1, Len(s)))

\* the non-empty elements of a list of segments, in order
RECURSIVE NonEmpty(_)
NonEmpty(q) ==
    IF q = <<>> THEN <<>>
    ELSE IF Head(q) = <<>> THEN NonEmpty(Tail(q))
    ELSE <<Head(q)>> \o NonEmpty(Tail(q))

(* ------------------------------------------------------------- registry *)

K_P1P  == <<"P", "1", "P">>
K_P1VM == <<"P", "1", "V", "M">>
K_P1S  == <<"P", "1", "S">>
K_P1M  == <<"P", "1", "M">>

\* LOOKUP, in the order the dict is iterated
LOOKUP == <<K_P1P, K_P1VM, K_P1S, K_P1M>>

LookupKeys == {LOOKUP[i] : i \in 1..Len(LOOKUP)}

ATTR_CORE == <<K_P1P>>

InvalidCommand == <<"I","n","v","a","l","i","d"," ","C","o","m","m","a","n","d">>
OutOfRange     == <<"P","a","r","a","m","e","t","e","r"," ","O","u","t","-","o","f","-","r","a","n","g","e">>
MainOff        == <<"M","a","i","n"," ","O","f","f">>
Zone2Off       == <<"Z","o","n","e","2"," ","O","f","f">>

(* ------------------------------------------------------- handler object *)

\* The handler as a record: the fields a method reads and writes, what it has
\* written to the transport so far, and whether it has raised.
Self ==
    [transport |-> transport, reading |-> reading, buffer |-> buffer,
     attr |-> attr, flag |-> flag, ready |-> ready, timers |-> timers,
     count |-> count, written |-> <<>>, raised |-> FALSE]

\* what a _parse_message call can change, for the record of the call
Snapshot(h) ==
    [attr |-> h.attr, flag |-> h.flag, timers |-> h.timers, ready |-> h.ready]

(* ------------------------------------------------- command/query encoder *)

\* mutant: transport.write outside any try, so that the AttributeError of a
\* missing transport reaches the caller
formatted_command_NoCatch(h, command) ==
    IF h.raised THEN h
    ELSE IF h.transport = "attached"
         THEN [h EXCEPT !.written = Append(@, command)]
         ELSE [h EXCEPT !.raised = TRUE]

\* formatted_command: transport.write inside try/except; with no transport
\* the AttributeError is caught and logged
formatted_command(h, command) ==
    IF h.raised THEN h
    ELSE IF h.transport = "attached"
         THEN [h EXCEPT !.written = Append(@, command)]
         ELSE h

\* command: append the delimiter and send
command(h, c) == formatted_command(h, c \o <<SEMI>>)

\* mutant: every item is sent as item + '?', 'P1VM' as well
query_NoRewrite(h, item) == command(h, item \o <<"?">>)

\* query: 'P1VM' is sent as 'P1V?', every other item as item + '?'
query(h, item) ==
    command(h, IF item = K_P1VM THEN <<"P", "1", "V", "?">> ELSE item \o <<"?">>)

\* for key in keys: self.query(key)
RECURSIVE QueryEach(_, _)
QueryEach(h, keys) ==
    IF keys = <<>> THEN h ELSE QueryEach(query(h, Head(keys)), Tail(keys))

refresh_all(h) == QueryEach(h, LOOKUP)

refresh_core(h) == QueryEach(h, ATTR_CORE)

(* --------------------------------------------------- message interpreter *)

\* the first LOOKUP key the message starts with, <<>> when there is none
RECURSIVE FirstKey(_, _)
FirstKey(data, keys) ==
    IF keys = <<>> THEN <<>>
    ELSE IF StartsWith(data, Head(keys)) THEN Head(keys)
    ELSE FirstKey(data, Tail(keys))

\* mutant: the prefix test the wrong way round as well (key.startswith(data))
RECURSIVE FirstKeyEitherWay(_, _)
FirstKeyEitherWay(data, keys) ==
    IF keys = <<>> THEN <<>>
    ELSE IF StartsWith(data, Head(keys)) \/ StartsWith(Head(keys), data) THEN Head(keys)
    ELSE FirstKeyEitherWay(data, Tail(keys))

MatchKey_EitherWay(data) == FirstKeyEitherWay(data, LOOKUP)

MatchKey(data) == FirstKey(data, LOOKUP)

\* mutant: the rejections and the zone 2 notice are not looked for
Branch_KeysOnly(data) ==
    IF StartsWith(data, MainOff) THEN "mainoff"
    ELSE IF MatchKey(data) # <<>> THEN "key"
    ELSE "unrecognized"

\* the branch of _parse_message a message takes
Branch(data) ==
    IF StartsWith(data, InvalidCommand) THEN "invalid"
    ELSE IF StartsWith(data, OutOfRange) THEN "range"
    ELSE IF StartsWith(data, MainOff) THEN "mainoff"
    ELSE IF StartsWith(data, Zone2Off) THEN "zone2"
    ELSE IF MatchKey(data) # <<>> THEN "key"
    ELSE "unrecognized"

\* recognized, as left by the branch taken
Recognized(data) == Branch(data) # "unrecognized"

\* data[len(key):]
ValueOf(data, key) == SubSeq(data, Len(key) + 1, Len(data))

\* mutant: every recognized attribute message counts as new data
NewData_Always(oldvalue, value) == TRUE

\* oldvalue != value
NewData(oldvalue, value) == oldvalue # value

\* mutant: the old value is not looked at
PowerOn_AnyOld(key, value, oldvalue) == key = K_P1P /\ value = <<"1">>

\* key == 'P1P' and value == '1' and oldvalue == '0'
PowerOn(key, value, oldvalue) ==
    key = K_P1P /\ value = <<"1">> /\ oldvalue = <<"0">>

\* key == 'P1P' and value == '0' and oldvalue == '1'
PowerOff(key, value, oldvalue) ==
    key = K_P1P /\ value = <<"0">> /\ oldvalue = <<"1">>

\* newdata, as _parse_message has it when it reaches "if newdata"
IsNew(h, data) ==
    Branch(data) = "key"
    /\ NewData(h.attr[MatchKey(data)], ValueOf(data, MatchKey(data)))

\* loop.call_later(delay, self.poweron_refresh)
call_later(h, delay) == [h EXCEPT !.timers[delay] = @ + 1]

\* if newdata: if self._update_callback: loop.call_soon(self._update_callback, data)
Notify(h, data, newdata) ==
    IF newdata /\ update_callback
    THEN [h EXCEPT !.count = @ + 1,
                   !.ready = Append(@, [cb |-> "update_callback", data |-> data,
                                        n |-> h.count + 1])]
    ELSE h

\* mutant: a power-off message cancels the pending reconciliation timers
KeyBranch_CancelOnOff(h, data) ==
    LET key      == MatchKey(data)
        value    == ValueOf(data, key)
        oldvalue == h.attr[key]
        h1 == [h EXCEPT !.attr[key] = value]
        h2 == IF PowerOn(key, value, oldvalue)
              THEN call_later([h1 EXCEPT !.flag = FALSE], 1)
              ELSE h1
        h3 == IF PowerOff(key, value, oldvalue)
              THEN [h2 EXCEPT !.flag = FALSE, !.timers = [d \in 0..2 |-> 0]]
              ELSE h2
    IN Notify(h3, data, IsNew(h, data))

\* the registry-key branch: store the value, detect the power edges, notify
KeyBranch(h, data) ==
    LET key      == MatchKey(data)
        value    == ValueOf(data, key)
        oldvalue == h.attr[key]
        h1 == [h EXCEPT !.attr[key] = value]
        h2 == IF PowerOn(key, value, oldvalue)
              THEN call_later([h1 EXCEPT !.flag = FALSE], 1)
              ELSE h1
        h3 == IF PowerOff(key, value, oldvalue)
              THEN [h2 EXCEPT !.flag = FALSE]
              ELSE h2
    IN Notify(h3, data, IsNew(h, data))

\* _parse_message.  The 'Main Off' branch evaluates getattr(self, '_'): the
\* handler has no attribute '_', so AttributeError leaves the method there.
parse_message(h, data) ==
    CASE Branch(data) = "mainoff" -> [h EXCEPT !.raised = TRUE]
      [] Branch(data) = "key" -> KeyBranch(h, data)
      [] OTHER -> h

\* what one call of _parse_message did
Call(h, data) ==
    [data |-> data, recognized |-> Recognized(data), newdata |-> IsNew(h, data),
     key |-> IF Branch(data) = "key" THEN MatchKey(data) ELSE <<>>,
     before |-> Snapshot(h), after |-> Snapshot(parse_message(h, data)),
     raised |-> parse_message(h, data).raised]

(* ---------------------------------------------------------- frame decoder *)

\* the for loop of _assemble_buffer over the non-empty segments; an
\* exception ends it.  r = [h, calls, skipped]
RECURSIVE ParseEach(_, _)
ParseEach(r, msgs) ==
    IF msgs = <<>> THEN r
    ELSE IF r.h.raised
         THEN [r EXCEPT !.skipped = @ \o msgs]
         ELSE LET h2 == parse_message(r.h, Head(msgs))
              IN ParseEach([h |-> h2,
                            calls |-> Append(r.calls, Call(r.h, Head(msgs))),
                            skipped |-> IF h2.raised THEN <<Head(msgs)>> ELSE <<>>],
                           Tail(msgs))

\* the messages _assemble_buffer hands to the interpreter
Messages(text) == NonEmpty(Split(text))

\* _assemble_buffer: pause reading, interpret every message of the buffer,
\* clear the buffer, resume reading
assemble_buffer(h) ==
    IF h.transport # "attached"
    THEN [h |-> [h EXCEPT !.raised = TRUE], calls |-> <<>>, skipped |-> Messages(h.buffer)]
    ELSE LET r == ParseEach([h |-> [h EXCEPT !.reading = "paused"],
                             calls |-> <<>>, skipped |-> <<>>],
                            Messages(h.buffer))
         IN IF r.h.raised THEN r
            ELSE [r EXCEPT !.h.buffer = <<>>, !.h.reading = "resumed"]

\* data_received: append the decoded chunk to the buffer and assemble
data_received(h, data) == assemble_buffer([h EXCEPT !.buffer = @ \o data])

(* ------------------------------------------------------------ connection *)

\* connection_made: keep the transport, query the core attributes
connection_made(h) ==
    refresh_core([h EXCEPT !.transport = "attached", !.reading = "resumed"])

\* connection_lost: drop the transport, schedule connection_lost_callback
connection_lost(h) ==
    LET h1 == [h EXCEPT !.transport = "None", !.reading = "closed"]
    IN IF lost_callback
       THEN [h1 EXCEPT !.ready = Append(@, [cb |-> "connection_lost_callback",
                                            data |-> <<>>, n |-> 0])]
       ELSE h1

(* ------------------------------------------------- power-on reconciliation *)

\* mutant: only the core attributes are queried, and the next run is in 1
poweron_refresh_Soon(h) ==
    IF h.flag THEN h ELSE call_later(refresh_core(h), 1)

\* poweron_refresh: while not successful, query everything and run again in 2
poweron_refresh(h) ==
    IF h.flag THEN h ELSE call_later(refresh_all(h), 2)

(* ------------------------------------------------- numbers and their text *)

Digits == <<"0", "1", "2", "3", "4", "5", "6", "7", "8", "9">>

IsDigit(c) == \E d \in 1..10 : Digits[d] = c

DigitValue(c) == (CHOOSE d \in 1..10 : Digits[d] = c) - 1

\* str(n) of a natural number
RECURSIVE NatText(_)
NatText(n) ==
    IF n < 10 THEN <<Digits[n + 1]>>
    ELSE NatText(n \div 10) \o <<Digits[(n % 10) + 1]>>

\* str(n) of an int
Str(n) == IF n < 0 THEN <<"-">> \o NatText(-n) ELSE NatText(n)

\* value of a non-empty run of digits
RECURSIVE DigitsValue(_)
DigitsValue(t) ==
    IF Len(t) = 1 THEN DigitValue(t[1])
    ELSE 10 * DigitsValue(SubSeq(t, 1, Len(t) - 1)) + DigitValue(t[Len(t)])

\* str.strip() of blanks, as int() does before it reads a number
RECURSIVE Strip(_)
Strip(t) ==
    IF t # <<>> /\ Head(t) = " " THEN Strip(Tail(t))
    ELSE IF t # <<>> /\ t[Len(t)] = " " THEN Strip(SubSeq(t, 1, Len(t) - 1))
    ELSE t

AllDigits(t) == t # <<>> /\ \A i \in 1..Len(t) : IsDigit(t[i])

\* int(text): [ok, val]; ok = FALSE stands for ValueError
ParseInt(text) ==
    LET t == Strip(text)
        signed == t # <<>> /\ Head(t) \in {"-", "+"}
        body == IF signed THEN Tail(t) ELSE t
    IN IF AllDigits(body)
       THEN [ok |-> TRUE,
             val |-> IF signed /\ Head(t) = "-" THEN -DigitsValue(body)
                     ELSE DigitsValue(body)]
       ELSE [ok |-> FALSE, val |-> 0]

\* round(num / den) of Python 3 for den > 0: to nearest, halves to even
RoundHalfEven(num, den) ==
    LET fl == num \div den
        r2 == 2 * (num % den)
    IN IF r2 > den \/ (r2 = den /\ fl % 2 = 1) THEN fl + 1 ELSE fl

\* mutant: the attenuation counted up from -90, not scaled to 0..100
attenuation_to_volume_Unscaled(value) == 90 + value

\* attenuation_to_volume: round((90.00 + int(value)) / 90 * 100)
attenuation_to_volume(value) == RoundHalfEven((90 + value) * 100, 90)

\* volume_to_attenuation: round((value / 100) * 90) - 90.  In double precision
\* (35 / 100) * 90 is 31.499999999999996, which rounds to 31; every other
\* volume of 0..100 has the exact product's rounding.
volume_to_attenuation(value) ==
    IF value = 35 THEN 31 - 90 ELSE RoundHalfEven(value * 90, 100) - 90

(* ---------------------------------------------------------------- getters *)

\* _get_boolean: bool(int(value)), False on ValueError
get_boolean(a, key) ==
    IF ParseInt(a[key]).ok THEN ParseInt(a[key]).val # 0 ELSE FALSE

\* mutant: the attenuation getter gives 0 on ValueError
get_attenuation_Zero(a) ==
    IF ParseInt(a[K_P1VM]).ok THEN ParseInt(a[K_P1VM]).val ELSE 0

\* attenuation getter: int(self._P1VM), -90 on ValueError
get_attenuation(a) ==
    IF ParseInt(a[K_P1VM]).ok THEN ParseInt(a[K_P1VM]).val ELSE -90

\* volume getter
get_volume(a) == attenuation_to_volume(get_attenuation(a))

\* _get_integer: [ok, val]; ok = FALSE stands for the None returned on ValueError
get_integer(a, key) == ParseInt(a[key])

power == get_boolean(attr, K_P1P)

mute == get_boolean(attr, K_P1M)

input_number == get_integer(attr, K_P1S)

(* ---------------------------------------------------------------- setters *)

\* mutant: _set_boolean stores the value it sends
set_boolean_Stored(h, key, value) ==
    IF value THEN [command(h, key \o <<"1">>) EXCEPT !.attr[key] = <<"1">>]
    ELSE [command(h, key \o <<"0">>) EXCEPT !.attr[key] = <<"0">>]

\* _set_boolean: key + '1' when value is True, else key + '0'
set_boolean(h, key, value) ==
    IF value THEN command(h, key \o <<"1">>) ELSE command(h, key \o <<"0">>)

\* power setter: _set_boolean is called twice
set_power(h, value) == set_boolean(set_boolean(h, K_P1P, value), K_P1P, value)

\* mute setter
set_mute(h, value) == set_boolean(h, K_P1M, value)

\* mutant: the attenuation setter without its range test
set_attenuation_NoRange(h, value) == command(h, <<"P", "1", "V">> \o Str(value))

\* attenuation setter, for an int value
set_attenuation(h, value) ==
    IF -90 <= value /\ value <= 0
    THEN command(h, <<"P", "1", "V">> \o Str(value))
    ELSE h

\* volume setter
set_volume(h, value) ==
    IF 0 <= value /\ value <= 100
    THEN set_attenuation(h, volume_to_attenuation(value))
    ELSE h

\* volume_as_percentage setter, for the value hundredths / 100:
\* round(value * 100) is hundredths for each of 0.00, 0.01 .. 1.00
set_volume_as_percentage(h, hundredths) ==
    IF 0 <= hundredths /\ hundredths <= 100
    THEN set_volume(h, hundredths)
    ELSE h

\* input_number setter
set_input_number(h, number) ==
    IF 1 <= number /\ number <= 99
    THEN command(h, <<"P", "1", "S">> \o Str(number))
    ELSE h

\* input_name setter: self._input_numbers is never filled, so get(value, 0) is 0
set_input_name(h, name) ==
    LET number == 0
    IN IF number > 0 THEN set_input_number(h, number) ELSE h

(* ------------------------------------------------------------ environment *)

\* what the device sends: responses of the wire format, each closed by its
\* delimiter.  A: the power and mute answers.  B: mute on and off, the notice
\* for a powered-off zone, the input.  C: empty responses, an unknown one,
\* then power on, on again, off, on and off.  D: power on and the answers to the
\* refresh: the volume, the input 3 and the input 'd' (USB).  E: the notice
\* for a powered-off zone 2, the two rejections and a volume of half a dB.
StreamA == <<"P","1","P","1",";","P","1","M","0",";">>
StreamB == <<"P","1","M","1",";","P","1","M","0",";","M","a","i","n"," ","O","f","f",";","P","1","S","2",";",";">>
StreamC == <<";",";","X","Y","Z","1","2","3",";","P","1","P","1",";","P","1","P","1",";","P","1","P","0",";","P","1","P","1",";","P","1","P","0",";">>

StreamD == <<"P","1","P","1",";","P","1","V","M","-","4","5",";","P","1","S","3",";","P","1","S","d",";">>
StreamE == <<"Z","o","n","e","2"," ","O","f","f",";","I","n","v","a","l","i","d"," ","C","o","m","m","a","n","d",";","P","a","r","a","m","e","t","e","r"," ","O","u","t","-","o","f","-","r","a","n","g","e",";","P","1","V","M","-","3","5",".","5",";">>

\* the streams that come in chunks, and those that come in one chunk only
Streams == {StreamA, StreamB, StreamC}
WholeStreams == {StreamD, StreamE}

\* arguments of the public calls
QueryItems == LookupKeys \cup {<<"P", "1", "V">>}
RawCommands == {<<"P", "1", "V", "-", "5", "0">>, <<"P", "1", "S", "3">>}
Attenuations == {-91, -90, -45, 0, 1}
Volumes == {-1, 0, 35, 50, 100, 101}
Hundredths == {-1, 0, 20, 100, 101}
InputNumbers == {0, 1, 42, 99, 100}
InputNames == {<<"T", "V">>}

(* ------------------------------------------------------------------ state *)

\* the handler as __init__ leaves it before its call of refresh_all
Constructed ==
    [transport |-> "None", reading |-> "closed", buffer |-> <<>>,
     attr |-> [k \in LookupKeys |-> IF k = K_P1P THEN <<"0">> ELSE <<>>],
     flag |-> FALSE, ready |-> <<>>, timers |-> [d \in 0..2 |-> 0],
     count |-> 0, written |-> <<>>, raised |-> FALSE]

\* the handler's fields and the outcome of the handler run, after a run
Commit(h, o, a) ==
    /\ transport' = h.transport
    /\ reading' = h.reading
    /\ buffer' = h.buffer
    /\ attr' = h.attr
    /\ flag' = h.flag
    /\ ready' = h.ready
    /\ timers' = h.timers
    /\ count' = h.count
    /\ written' = h.written
    /\ raised' = h.raised
    /\ op' = o
    /\ arg' = a

\* __init__: the fields, then refresh_all with no transport; c chunk
\* boundaries inside streams are counted as used
Constructor(c) ==
    LET h == refresh_all(Constructed)
    IN /\ transport = h.transport
       /\ reading = h.reading
       /\ buffer = h.buffer
       /\ attr = h.attr
       /\ flag = h.flag
       /\ ready = h.ready
       /\ timers = h.timers
       /\ count = h.count
       /\ written = h.written
       /\ raised = h.raised
       /\ op = "init"
       /\ arg = <<>>
       /\ update_callback \in BOOLEAN
       /\ lost_callback = update_callback
       /\ stream = <<>>
       /\ pos = 0
       /\ nstreams = 0
       /\ cuts = c
       /\ startBuffer = <<>>
       /\ matched = 0
       /\ same = TRUE
       /\ parsed = <<>>
       /\ skipped = <<>>
       /\ lastN = 0

Init == Constructor(0)

Config == <<update_callback, lost_callback>>
Wire == <<stream, pos, nstreams, cuts, startBuffer, matched, same>>

(* ---------------------------------------------------------------- actions *)

\* asyncio attaches a transport to the handler
ConnectionMade ==
    /\ transport = "None"
    /\ ready = <<>>
    /\ Commit(connection_made(Self), "connection_made", <<>>)
    /\ parsed' = <<>>
    /\ UNCHANGED <<Config, Wire, skipped, lastN>>

\* the connection ends: between two streams, or by asyncio closing the
\* transport after data_received raised.  What the device has not sent yet it
\* sends on the next connection.
ConnectionLost ==
    /\ transport = "attached"
    /\ ready = <<>>
    /\ pos = Len(stream) \/ reading = "paused"
    /\ Commit(connection_lost(Self), "connection_lost", <<>>)
    /\ parsed' = <<>>
    /\ UNCHANGED <<Config, Wire, skipped, lastN>>

\* the device starts to send another run of responses
NewStream ==
    /\ transport = "attached"
    /\ reading = "resumed"
    /\ pos = Len(stream)
    /\ nstreams < MaxStreams
    /\ \E s \in (IF cuts < MaxCuts THEN Streams ELSE Streams \cup WholeStreams) :
           stream' = s
    /\ pos' = 0
    /\ nstreams' = nstreams + 1
    /\ startBuffer' = buffer
    /\ matched' = 0
    /\ same' = TRUE
    /\ Commit(Self, "idle", <<>>)
    /\ parsed' = <<>>
    /\ UNCHANGED <<Config, cuts, skipped, lastN>>

\* the texts of a list of _parse_message calls
Handed(calls) == [i \in 1..Len(calls) |-> calls[i].data]

\* the messages up to the first one at which _parse_message raises
RECURSIVE UpToFault(_)
UpToFault(msgs) ==
    IF msgs = <<>> THEN <<>>
    ELSE IF Branch(Head(msgs)) = "mainoff" THEN <<Head(msgs)>>
    ELSE <<Head(msgs)>> \o UpToFault(Tail(msgs))

\* the messages handed to _parse_message when the stream comes as one chunk
OneChunk == UpToFault(Messages(startBuffer \o stream))

\* part occurs in whole right after its first n elements
IsPrefixAt(part, whole, n) ==
    /\ n + Len(part) <= Len(whole)
    /\ \A i \in 1..Len(part) : part[i] = whole[n + i]

\* asyncio delivers the next chunk of the stream, cut anywhere; the callbacks
\* registered with call_soon have run by then
DataReceived ==
    /\ transport = "attached"
    /\ reading = "resumed"
    /\ ready = <<>>
    /\ \E k \in 1..(Len(stream) - pos) :
        /\ pos + k = Len(stream) \/ cuts < MaxCuts
        /\ cuts' = IF pos + k < Len(stream) THEN cuts + 1 ELSE cuts
        /\ LET chunk == SubSeq(stream, pos + 1, pos + k)
               r == data_received(Self, chunk)
           IN /\ Commit(r.h, "data_received", chunk)
              /\ parsed' = r.calls
              /\ skipped' = r.skipped
              /\ matched' = IF same /\ IsPrefixAt(Handed(r.calls), OneChunk, matched)
                            THEN matched + Len(r.calls) ELSE 0
              /\ same' = (same /\ IsPrefixAt(Handed(r.calls), OneChunk, matched))
              /\ pos' = pos + k
    /\ UNCHANGED <<Config, stream, nstreams, startBuffer, lastN>>

\* the loop runs the callback registered first
RunCallback ==
    /\ ready # <<>>
    /\ Commit([Self EXCEPT !.ready = Tail(@),
                           !.count = IF Tail(ready) = <<>> THEN 0 ELSE @],
              Head(ready).cb, Head(ready).data)
    /\ lastN' = IF Tail(ready) = <<>> THEN 0
              ELSE IF Head(ready).cb = "update_callback" THEN Head(ready).n
              ELSE lastN
    /\ parsed' = <<>>
    /\ UNCHANGED <<Config, Wire, skipped>>

\* one time unit passes while no timer is due
Tick ==
    /\ ready = <<>>
    /\ pos = Len(stream)
    /\ timers[0] = 0
    /\ timers[1] + timers[2] > 0
    /\ Commit([Self EXCEPT !.timers = [d \in 0..2 |-> IF d = 2 THEN 0 ELSE timers[d + 1]]],
              "idle", <<>>)
    /\ parsed' = <<>>
    /\ UNCHANGED <<Config, Wire, skipped, lastN>>

\* the loop runs a due timer: poweron_refresh
RunTimer ==
    /\ ready = <<>>
    /\ timers[0] > 0
    /\ Commit(poweron_refresh([Self EXCEPT !.timers[0] = @ - 1]), "poweron_refresh", <<>>)
    /\ parsed' = <<>>
    /\ UNCHANGED <<Config, Wire, skipped, lastN>>

\* a public call: the handler after it, its name and its argument
Api(h, o, a) ==
    /\ pos = Len(stream)
    /\ Commit(h, o, a)
    /\ parsed' = <<>>
    /\ UNCHANGED <<Config, Wire, skipped, lastN>>

Query == \E item \in QueryItems : Api(query(Self, item), "query", item)

Command == \E c \in RawCommands : Api(command(Self, c), "command", c)

RefreshCore == Api(refresh_core(Self), "refresh_core", <<>>)

RefreshAll == Api(refresh_all(Self), "refresh_all", <<>>)

SetPower == \E v \in BOOLEAN : Api(set_power(Self, v), "power", <<v>>)

SetMute == \E v \in BOOLEAN : Api(set_mute(Self, v), "mute", <<v>>)

SetAttenuation == \E v \in Attenuations : Api(set_attenuation(Self, v), "attenuation", <<v>>)

SetVolume == \E v \in Volumes : Api(set_volume(Self, v), "volume", <<v>>)

SetVolumeAsPercentage ==
    \E v \in Hundredths :
        Api(set_volume_as_percentage(Self, v), "volume_as_percentage", <<v>>)

SetInputNumber ==
    \E v \in InputNumbers : Api(set_input_number(Self, v), "input_number", <<v>>)

SetInputName == \E v \in InputNames : Api(set_input_name(Self, v), "input_name", v)

\* what the event loop runs: connection events, received data, callbacks, timers
Loop ==
    \/ ConnectionMade
    \/ ConnectionLost
    \/ NewStream
    \/ DataReceived
    \/ RunCallback
    \/ Tick
    \/ RunTimer

\* what the application calls
Calls ==
    \/ Query
    \/ Command
    \/ RefreshCore
    \/ RefreshAll
    \/ SetPower
    \/ SetMute
    \/ SetAttenuation
    \/ SetVolume
    \/ SetVolumeAsPercentage
    \/ SetInputNumber
    \/ SetInputName

Next == Loop \/ Calls

\* the handler under the event loop alone, streams cut into chunks
Spec == Init /\ [][Loop]_vars

\* the handler under the event loop and the application's calls, every
\* stream delivered as one chunk
InitWhole == Constructor(MaxCuts)

SpecApi == InitWhole /\ [][Next]_vars

\* the event loop keeps running: callbacks that are ready run, time passes
\* and timers that are due run
Fairness ==
    /\ WF_vars(RunCallback)
    /\ WF_vars(Tick)
    /\ WF_vars(RunTimer)

\* the handler under an event loop that keeps running, every stream
\* delivered as one chunk
SpecLive == InitWhole /\ [][Loop]_vars /\ Fairness

\* the largest volume the volume setter accepts
MaxVolume == 100

\* volume_to_attenuation applied to a volume of the setter's range
VolumeToAttenuation ==
    /\ \E v \in 0..MaxVolume :
           /\ op' = "volume_to_attenuation"
           /\ arg' = <<v, volume_to_attenuation(v)>>
    /\ UNCHANGED <<transport, reading, buffer, attr, flag, ready, timers, count,
                   written, raised, parsed, skipped, lastN, Config, Wire>>

\* attenuation_to_volume applied to the result of volume_to_attenuation
AttenuationToVolume ==
    /\ op = "volume_to_attenuation"
    /\ op' = "attenuation_to_volume"
    /\ arg' = <<arg[1], arg[2], attenuation_to_volume(arg[2])>>
    /\ UNCHANGED <<transport, reading, buffer, attr, flag, ready, timers, count,
                   written, raised, parsed, skipped, lastN, Config, Wire>>

Conversions ==
    \/ VolumeToAttenuation
    \/ AttenuationToVolume

\* the two volume conversions alone, on every volume of 0..100
SpecVolume == Init /\ [][Conversions]_vars

(* ----------------------------------------------------------------- claims *)

\* the calls of the last data_received
Calls_ == {parsed[i] : i \in 1..Len(parsed)}

\* text received on the stream so far, after what the buffer held at its start
Received == startBuffer \o SubSeq(stream, 1, pos)

\* the last element of a non-empty list
Last(q) == q[Len(q)]

\* C1: chunk-boundary invariance.  After every data_received the buffer holds
\* the text received after the last delimiter, and once a stream is delivered
\* the messages handed to _parse_message are, in order, those handed over
\* when the stream comes as one chunk.
C1_ChunkBoundaryInvariance ==
    /\ op = "data_received" => buffer = Last(Split(Received))
    /\ (nstreams > 0 /\ pos = Len(stream)) => (same /\ matched = Len(OneChunk))

\* a call whose message moved the stored power value from '0' to '1'
PowerEdge(c) ==
    /\ c.key = K_P1P
    /\ c.before.attr[K_P1P] = <<"0">>
    /\ c.after.attr[K_P1P] = <<"1">>

\* C2: poweron_refresh is scheduled exactly by a power message that moves
\* the stored power value from '0' to '1': one timer of delay 1 per such
\* message, with the success flag false after it; every other message leaves
\* the timers alone, and 'P1P0' on power '1' leaves the flag false.
C2_ScheduledOnPowerOnEdge ==
    \A c \in Calls_ :
        /\ PowerEdge(c) =>
               /\ c.after.timers = [c.before.timers EXCEPT ![1] = @ + 1]
               /\ c.after.flag = FALSE
        /\ ~PowerEdge(c) => c.after.timers = c.before.timers
        /\ (c.data = <<"P", "1", "P", "0">> /\ c.before.attr[K_P1P] = <<"1">>) =>
               c.after.flag = FALSE
        /\ (op = "data_received" /\ c = Last(parsed)) => timers = c.after.timers

\* C2 witness: 'P1P1' was interpreted on power '0', and so scheduled the loop
C2_Witness ==
    /\ op = "data_received"
    /\ \E c \in Calls_ : PowerEdge(c) /\ c.data = <<"P", "1", "P", "1">>
    /\ timers[1] = 1

\* C3: a message that begins with 'Main Off' raises nothing, changes nothing
\* and notifies nobody, and the messages after it in the chunk are interpreted.
C3_MainOffLogOnly ==
    /\ \A c \in Calls_ :
           StartsWith(c.data, MainOff) => (~c.raised /\ c.after = c.before)
    /\ op = "data_received" => (~raised /\ skipped = <<>>)

\* C4: a message for a key whose stored value is already the message's value
\* (the same message came last for the key) has changed = false: it registers
\* no notification and no timer, and the stored value is the message's value.
C4_SameMessageTwice ==
    \A c \in Calls_ :
        c.key # <<>> =>
            /\ c.after.attr[c.key] = ValueOf(c.data, c.key)
            /\ c.before.attr[c.key] = ValueOf(c.data, c.key) =>
                   /\ ~c.newdata
                   /\ c.after.ready = c.before.ready
                   /\ c.after.timers = c.before.timers
                   /\ c.after.attr = c.before.attr

\* C4 witness: 'P1P1' interpreted while the stored power value is '1', which
\* only an earlier 'P1P1' can have stored
C4_Witness ==
    /\ op = "data_received"
    /\ \E c \in Calls_ :
           c.data = <<"P", "1", "P", "1">> /\ c.before.attr[K_P1P] = <<"1">>

\* a message that starts with none of the four literal responses and with no
\* registry key
Unknown(data) ==
    /\ \A lit \in {InvalidCommand, OutOfRange, MainOff, Zone2Off} : ~StartsWith(data, lit)
    /\ \A k \in LookupKeys : ~StartsWith(data, k)

\* C5: an unknown message is unrecognized: it changes no stored value, not
\* the flag and not the timers, and registers no notification.
C5_UnknownMessage ==
    \A c \in Calls_ :
        Unknown(c.data) =>
            /\ ~c.recognized
            /\ ~c.newdata
            /\ ~c.raised
            /\ c.after = c.before

\* C5 witness: 'XYZ123' was interpreted
C5_Witness ==
    /\ op = "data_received"
    /\ \E c \in Calls_ : c.data = <<"X", "Y", "Z", "1", "2", "3">>

\* the registry key a message starts with (no key is a prefix of another)
KeyOf(m) == CHOOSE k \in LookupKeys : StartsWith(m, k)

\* a list of messages, each starting with a registry key
AttributeMessages(ms) ==
    \A i \in 1..Len(ms) : \E k \in LookupKeys : StartsWith(ms[i], k)

\* a chunk made of complete attribute messages: it ends with the delimiter
\* and every response in it starts with a registry key
CompleteAttributeChunk(chunk) ==
    /\ chunk # <<>>
    /\ Last(chunk) = SEMI
    /\ NonEmpty(Split(chunk)) # <<>>
    /\ AttributeMessages(NonEmpty(Split(chunk)))

\* what C6 promises for messages ms on stored values a: the values afterwards
\* and the messages notified, by the claim's own rule
RECURSIVE Promised(_, _, _)
Promised(a, notes, ms) ==
    IF ms = <<>> THEN [attr |-> a, notes |-> notes]
    ELSE LET m == Head(ms)
             k == KeyOf(m)
             v == SubSeq(m, Len(k) + 1, Len(m))
         IN Promised([a EXCEPT ![k] = v],
                     IF a[k] # v THEN Append(notes, m) ELSE notes,
                     Tail(ms))

\* the messages carried by the registered update notifications
Notified == [i \in 1..Len(ready) |-> ready[i].data]

\* C6: after a chunk of complete attribute messages on a handler with a
\* subscriber, one notification is registered per message whose value differs
\* from the stored one, carrying the message, and every key holds the value
\* of its last message; 'P1P1;P1M0;' on a fresh handler gives power '1',
\* mute '0', power getter true, mute getter false and two notifications.
C6_NotificationPerChange ==
    (op = "data_received" /\ update_callback /\ CompleteAttributeChunk(arg)) =>
        /\ parsed # <<>>
        /\ LET e == Promised(parsed[1].before.attr, <<>>, NonEmpty(Split(arg)))
           IN /\ attr = e.attr
              /\ Notified = e.notes
              /\ \A i \in 1..Len(ready) : ready[i].cb = "update_callback"
        /\ (arg = StreamA /\ nstreams = 1) =>
               /\ attr[K_P1P] = <<"1">>
               /\ attr[K_P1M] = <<"0">>
               /\ power = TRUE
               /\ mute = FALSE
               /\ Len(ready) = 2

\* a chunk of delimiters only
OnlyDelimiters(chunk) == chunk # <<>> /\ \A i \in 1..Len(chunk) : chunk[i] = SEMI

\* C7: empty segments are dropped.  No call of the interpreter has the empty
\* message, a chunk leads to no more calls than it has non-empty segments,
\* and a chunk of delimiters only leads to no call, no change and no
\* notification.
C7_EmptySegmentsDropped ==
    /\ \A c \in Calls_ : c.data # <<>>
    /\ op = "data_received" =>
           /\ Len(parsed) <= Len(NonEmpty(Split(arg)))
           /\ OnlyDelimiters(arg) => (parsed = <<>> /\ ready = <<>> /\ ~raised)

\* C8: notifications are deferred and ordered.  While a subscriber callback
\* runs or waits, every message of the chunk has been interpreted, and the
\* callbacks run in the order their messages arrived.
C8_DeferredAndOrdered ==
    /\ (op = "update_callback" \/ ready # <<>>) => skipped = <<>>
    /\ \A i \in 1..Len(ready) :
           ready[i].cb = "update_callback" =>
               /\ lastN < ready[i].n
               /\ \A j \in 1..Len(ready) :
                      (i < j /\ ready[j].cb = "update_callback") => ready[i].n < ready[j].n

\* the public calls that send
ApiOps ==
    {"query", "command", "refresh_core", "refresh_all", "power", "mute", "attenuation",
     "volume", "volume_as_percentage", "input_number", "input_name"}

\* C9: a query, a command or a property set made while no transport is
\* attached raises nothing, writes nothing and leaves the stored values, the
\* buffer, the flag, the timers and the registered callbacks as they are;
\* so does the refresh of the constructor.
C9_NoTransportNoEffect ==
    /\ op = "init" => (~raised /\ written = <<>>)
    /\ [][(transport = "None" /\ op' \in ApiOps) =>
            /\ ~raised'
            /\ written' = <<>>
            /\ attr' = attr
            /\ buffer' = buffer
            /\ flag' = flag
            /\ timers' = timers
            /\ ready' = ready
            /\ transport' = "None"]_vars

\* C9 witness: the power was set after the connection was lost
C9_Witness ==
    /\ op = "power"
    /\ transport = "None"
    /\ nstreams > 0
    /\ written = <<>>

\* C10: each query and each command writes once, the item with '?' and the
\* delimiter ('P1VM' as 'P1V?;'), the raw command with the delimiter; every
\* request written ends with exactly one delimiter.
C10_RequestsDelimited ==
    /\ (op = "query" /\ transport = "attached") =>
           written = <<IF arg = K_P1VM THEN <<"P", "1", "V", "?", SEMI>>
                       ELSE arg \o <<"?", SEMI>>>>
    /\ (op = "command" /\ transport = "attached") => written = <<arg \o <<SEMI>>>>
    /\ \A i \in 1..Len(written) :
           /\ Len(written[i]) >= 2
           /\ Last(written[i]) = SEMI
           /\ written[i][Len(written[i]) - 1] # SEMI

\* C10 witness: the volume was queried on a connection
C10_Witness ==
    /\ op = "query"
    /\ arg = K_P1VM
    /\ transport = "attached"
    /\ written = <<<<"P", "1", "V", "?", SEMI>>>>

\* the commands 'P1V' + n + ';' for the integers n of -90..0
VolumeCommands == {<<"P", "1", "V">> \o Str(n) \o <<SEMI>> : n \in -90..0}

\* the commands 'P1S' + n + ';' for the integers n of 1..99
InputCommands == {<<"P", "1", "S">> \o Str(n) \o <<SEMI>> : n \in 1..99}

\* whether the last call was a set with a value outside the setter's range
OutsideRange ==
    \/ op = "attenuation" /\ arg[1] \notin -90..0
    \/ op = "volume" /\ arg[1] \notin 0..100
    \/ op = "volume_as_percentage" /\ arg[1] \notin 0..100
    \/ op = "input_number" /\ arg[1] \notin 1..99

\* C11: range validation on set.  What the attenuation, volume and
\* volume_as_percentage setters write is a volume command with an integer of
\* -90..0, what the input_number setter writes is an input command with an
\* integer of 1..99, a set inside the range on a connection writes one
\* command, and a set with a value outside the range writes nothing.
C11_RangeValidatedOnSet ==
    /\ op \in {"attenuation", "volume", "volume_as_percentage"} =>
           \A i \in 1..Len(written) : written[i] \in VolumeCommands
    /\ op = "input_number" => \A i \in 1..Len(written) : written[i] \in InputCommands
    /\ OutsideRange => written = <<>>
    /\ (op \in {"attenuation", "volume", "volume_as_percentage", "input_number"}
        /\ ~OutsideRange /\ transport = "attached") => Len(written) = 1
    /\ (op = "attenuation" /\ ~OutsideRange /\ transport = "attached") =>
           written = <<<<"P", "1", "V">> \o Str(arg[1]) \o <<SEMI>>>>
    /\ (op = "input_number" /\ ~OutsideRange /\ transport = "attached") =>
           written = <<<<"P", "1", "S">> \o Str(arg[1]) \o <<SEMI>>>>

\* C11 witness: attenuation -91 was set on a connection and nothing written
C11_Witness ==
    /\ op = "attenuation"
    /\ arg = <<-91>>
    /\ transport = "attached"
    /\ written = <<>>

\* C12: volume round trip.  volume_to_attenuation(v) lies in -90..0 and
\* attenuation_to_volume of it differs from v by at most 1, for every volume
\* v of 0..100; 0 gives -90 and 0, 100 gives 0 and 100, 50 gives -45 and 50.
C12_VolumeRoundTrip ==
    /\ op \in {"volume_to_attenuation", "attenuation_to_volume"} => arg[2] \in -90..0
    /\ op = "attenuation_to_volume" =>
           /\ arg[3] - arg[1] \in -1..1
           /\ arg[1] = 0 => (arg[2] = -90 /\ arg[3] = 0)
           /\ arg[1] = 100 => (arg[2] = 0 /\ arg[3] = 100)
           /\ arg[1] = 50 => (arg[2] = -45 /\ arg[3] = 50)

\* C12 witness: volume 35 went to attenuation -59 and came back as 34
C12_Witness ==
    /\ op = "attenuation_to_volume"
    /\ arg = <<35, -59, 34>>

\* a reconciliation timer is pending
Polling == timers[0] + timers[1] + timers[2] > 0

\* the flag is true and no reconciliation timer is pending
Reconciled == flag /\ ~Polling

\* the device answered while the loop was polling: a response for the input
\* was interpreted with a reconciliation timer pending
Answered ==
    /\ op = "data_received"
    /\ \E c \in Calls_ :
           /\ c.key = K_P1S
           /\ c.before.timers[0] + c.before.timers[1] + c.before.timers[2] > 0

\* C13: once the device has answered after a power-on edge, the flag becomes
\* true and the loop reaches Reconciled and stays there: no timer pending, no
\* further refresh.
C13_EventuallyReconciled == Answered ~> []Reconciled

\* one query for every registry key, in the registry's order
AllQueries ==
    [i \in 1..Len(LOOKUP) |->
        IF LOOKUP[i] = K_P1VM THEN <<"P", "1", "V", "?", SEMI>>
        ELSE LOOKUP[i] \o <<"?", SEMI>>]

Pending(t) == t[0] + t[1] + t[2]

C15_ResumedAfterEveryChunk ==
    op = "data_received" =>
        /\ reading = "resumed"
        /\ ~raised
        /\ Handed(parsed) = NonEmpty(Split(arg))

\* C17: the stored values are changed only by interpreting a received
\* message that starts with a registry key.  Every public call that sends
\* leaves them as they were, and the getters read nothing else; a step that
\* changes a stored value is a data_received that interpreted a message for
\* that key.
C17_StateChangedOnlyByMessages ==
    /\ [][op' \in ApiOps => attr' = attr]_vars
    /\ [][\A k \in LookupKeys :
            attr'[k] # attr[k] =>
                /\ op' = "data_received"
                /\ \E i \in 1..Len(parsed') : parsed'[i].key = k]_vars

\* C17 witness: mute was set to true on a connection, 'P1M1;' was written,
\* and the stored mute value is still the '0' the device reported
C17_Witness ==
    /\ op = "mute"
    /\ arg = <<TRUE>>
    /\ written = <<<<"P", "1", "M", "1", SEMI>>>>
    /\ attr[K_P1M] = <<"0">>
    /\ mute = FALSE

\* a message that begins with 'Invalid Command', 'Parameter Out-of-range' or
\* 'Zone2 Off'
LogOnly(data) ==
    \E lit \in {InvalidCommand, OutOfRange, Zone2Off} : StartsWith(data, lit)

\* C18: a message that begins with 'Invalid Command', 'Parameter
\* Out-of-range' or 'Zone2 Off' is recognized without a registry key being
\* matched; it raises nothing, registers no notification and leaves the
\* stored values, the flag and the timers as they are.
C18_RejectionsLogOnly ==
    \A c \in Calls_ :
        LogOnly(c.data) =>
            /\ c.recognized
            /\ c.key = <<>>
            /\ ~c.newdata
            /\ ~c.raised
            /\ c.after = c.before

\* C18 witness: the three messages were interpreted in one chunk
C18_Witness ==
    /\ op = "data_received"
    /\ \A lit \in {InvalidCommand, OutOfRange, Zone2Off} : \E c \in Calls_ : c.data = lit

\* C19: setting power or mute on a connection writes exactly one command,
\* the key with '1' for true and '0' for false and the delimiter.
C19_OneWritePerBooleanSet ==
    /\ (op = "power" /\ transport = "attached") =>
           written = <<K_P1P \o <<IF arg[1] THEN "1" ELSE "0", SEMI>>>>
    /\ (op = "mute" /\ transport = "attached") =>
           written = <<K_P1M \o <<IF arg[1] THEN "1" ELSE "0", SEMI>>>>

\* a text that is no integer: it is empty, it has a character that is not a
\* digit, a sign or a blank, or it has no digit
NotInteger(t) ==
    \/ t = <<>>
    \/ \E i \in 1..Len(t) : ~IsDigit(t[i]) /\ t[i] \notin {"-", "+", " "}
    \/ \A i \in 1..Len(t) : ~IsDigit(t[i])

\* C20: the getters give safe defaults.  On a stored value that is empty or
\* no integer the power and mute getters give false, the attenuation getter
\* gives -90 and the volume getter 0, and the input_number getter gives no
\* value; on '0' and '1' the boolean getters give false and true; on the text
\* of an attenuation of -90..0 the attenuation getter gives that number.
C20_GettersDefault ==
    /\ power \in BOOLEAN
    /\ NotInteger(attr[K_P1P]) => power = FALSE
    /\ attr[K_P1P] = <<"0">> => power = FALSE
    /\ attr[K_P1P] = <<"1">> => power = TRUE
    /\ mute \in BOOLEAN
    /\ NotInteger(attr[K_P1M]) => mute = FALSE
    /\ attr[K_P1M] = <<"0">> => mute = FALSE
    /\ attr[K_P1M] = <<"1">> => mute = TRUE
    /\ NotInteger(attr[K_P1VM]) => (get_attenuation(attr) = -90 /\ get_volume(attr) = 0)
    /\ \A n \in -90..0 : attr[K_P1VM] = Str(n) => get_attenuation(attr) = n
    /\ NotInteger(attr[K_P1S]) => ~input_number.ok
    /\ \A n \in 1..99 : attr[K_P1S] = Str(n) => input_number = [ok |-> TRUE, val |-> n]

\* C20 witness: the stored volume is '-35.5', which is no integer, and the
\* mute value is empty: attenuation -90, volume 0, mute false
C20_Witness ==
    /\ attr[K_P1VM] = <<"-", "3", "5", ".", "5">>
    /\ attr[K_P1M] = <<>>
    /\ get_attenuation(attr) = -90
    /\ get_volume(attr) = 0
    /\ mute = FALSE

\* C21: at most one reconciliation timer (a pending call of
\* poweron_refresh) exists at any time, whatever power messages were
\* received, repeated off and on included.
C21_AtMostOneTimer == Pending(timers) <= 1

\* the segments of the buffer
Buffered == {Split(buffer)[i] : i \in 1..Len(Split(buffer))}

\* C22: received content never wedges the handler.  Whatever came before
\* ('Main Off' and unrecognized text included), a chunk of complete
\* attribute messages is interpreted to its end without raising, every
\* message of it exactly once and nothing else, each message leaves its
\* value stored, and no message that was handed to the interpreter stays in
\* the buffer to be interpreted again.
C22_NeverWedged ==
    /\ (op = "data_received" /\ CompleteAttributeChunk(arg)) =>
           /\ ~raised
           /\ reading = "resumed"
           /\ Handed(parsed) = Messages(arg)
           /\ \A i \in 1..Len(parsed) :
                  parsed[i].after.attr[parsed[i].key] = ValueOf(parsed[i].data, parsed[i].key)
           /\ attr[KeyOf(Last(Messages(arg)))] =
                  ValueOf(Last(Messages(arg)), KeyOf(Last(Messages(arg))))
    /\ op = "data_received" => \A c \in Calls_ : c.data \notin Buffered

====
